---- MODULE Spec2Model ----
(***************************************************************************)
(* The employee record service: the request router of main.py over the     *)
(* data store (module database) and the entity (module models).            *)
(*                                                                         *)
(* The router's handlers are translated from main.py.  The store           *)
(* operations database_* and the entity Employee, which main.py imports,   *)
(* follow the written specification of the store (sections 3 and 4.1).     *)
(***************************************************************************)
EXTENDS Integers, Sequences, FiniteSets, TLC

VARIABLES
    table,      \* the persisted employees table: a set of rows
    seq,        \* the store's id counter: the highest id a row has carried
    request,    \* the last request the router handled
    response,   \* the response to it: [status, body]
    calls,      \* the store operations that request invoked, in order
    returned,   \* history: the id the latest successful create returned (0: none)
    deleted,    \* history: the ids whose row a delete request removed
    inflight    \* the update requests being handled concurrently (SpecConc)

vars == <<table, seq, request, response, calls, returned, deleted, inflight>>

(***************************************************************************)
(* Bounds and inputs.                                                      *)
(***************************************************************************)
MaxId == 3          \* creates stop once the id counter has reached this id
MaxSkip == 2        \* the largest explicit skip of a list request
MaxLimit == 2       \* the largest explicit limit of a list request

DefaultSkip == 0    \* read_employees(skip: int = 0, ...)
DefaultLimit == 10  \* read_employees(..., limit: int = 10)

\* Python's None: a value equal to no record
None == [none |-> TRUE]

\* ids a request may name: every assignable id and one that never exists
RequestIds == 1 .. (MaxId + 1)

\* the {column} path segment is a free string: the two documented columns,
\* the remaining column of the table, and a column the table does not have
RequestColumns == {"name", "department", "id", "salary"}

\* text values, as a name, a department or the {new_value} path segment: a
\* word and a numeral
Texts == {"Ann", "2"}

NewValues == Texts

\* query strings of the list request: skip and limit, each given or left out
\* (skip >= 0 and limit >= 1: the store leaves other values to the query engine)
Queries ==
    {q \in UNION {[given -> 0 .. (MaxSkip + MaxLimit)] :
                     given \in SUBSET {"skip", "limit"}} :
        /\ "skip" \in DOMAIN q => q["skip"] <= MaxSkip
        /\ "limit" \in DOMAIN q => q["limit"] \in 1 .. MaxLimit}

\* request bodies of create: with and without a client-supplied id
Payloads ==
    [name : Texts, department : Texts]
        \cup [id : 1 .. 2, name : {"Ann"}, department : {"2"}]

(***************************************************************************)
(* models.Employee and the database module (the data store).               *)
(***************************************************************************)
TableColumns == {"id", "name", "department"}

Employee(row) ==
    [id |-> row.id, name |-> row.name, department |-> row.department]

Ids(t) == {r.id : r \in t}

Row(t, id) == CHOOSE r \in t : r.id = id

MaxOf(S) == IF S = {} THEN 0 ELSE CHOOSE m \in S : \A x \in S : x <= m

Min(a, b) == IF a <= b THEN a ELSE b

Max(a, b) == IF a >= b THEN a ELSE b

\* text given for the integer column id: a numeral converts, a word does not
IsIntText(v) == \E i \in 0 .. (MaxId + 1) : ToString(i) = v

ParseInt(v) == CHOOSE i \in 0 .. (MaxId + 1) : ToString(i) = v

ColumnText(row, column) ==
    IF column = "id" THEN ToString(row.id) ELSE row[column]

RECURSIVE SortById(_)
SortById(t) ==
    IF t = {} THEN <<>>
    ELSE LET first == CHOOSE r \in t : \A q \in t : r.id <= q.id
         IN  <<first>> \o SortById(t \ {first})

\* a store result: the store afterwards, the value returned, and whether the
\* storage engine faulted instead of returning
StoreResult(db, result, fault) == [db |-> db, result |-> result, fault |-> fault]

\* create_table: ensures the table exists; no effect when it does
database_create_table(db) == db

\* get_employees: up to limit rows after the first skip, by ascending id
database_get_employees(db, skip, limit) ==
    LET rows == SortById(db.table)
    IN  StoreResult(db, SubSeq(rows, skip + 1, Min(skip + limit, Len(rows))), FALSE)

\* get_employee: the row with the id, or None
database_get_employee(db, id) ==
    StoreResult(db, IF id \in Ids(db.table) THEN Row(db.table, id) ELSE None, FALSE)

\* insert_employee: assigns a new id, greater than every id a row has carried
\* (unique, monotonic, never reused after deletion), whatever id the payload
\* has; returns the stored row
database_insert_employee(db, employee) ==
    LET id  == 1 + db.seq
        row == [id |-> id, name |-> employee.name,
                department |-> employee.department]
    IN  StoreResult([table |-> db.table \cup {row}, seq |-> id], row, FALSE)

\* delete_employee: removes the row with the id; TRUE iff a row was removed
database_delete_employee(db, id) ==
    StoreResult([db EXCEPT !.table = {r \in @ : r.id # id}],
                id \in Ids(db.table), FALSE)

\* update_employee: sets the named column of the row with the id; TRUE iff a
\* row was affected.  The store does not validate the column: a column the
\* table lacks is a storage fault; the column id is set like any other, kept
\* an integer and unique by the table (a fault otherwise).
database_update_employee(db, id, column, new_value) ==
    IF column \notin TableColumns
    THEN StoreResult(db, FALSE, TRUE)                  \* no such column
    ELSE IF id \notin Ids(db.table)
    THEN StoreResult(db, FALSE, FALSE)                 \* no row affected
    ELSE LET old == Row(db.table, id)
         IN  IF column = "id"
             THEN IF ~IsIntText(new_value)
                  THEN StoreResult(db, FALSE, TRUE)    \* not an integer
                  ELSE IF ParseInt(new_value) \in (Ids(db.table) \ {id})
                  THEN StoreResult(db, FALSE, TRUE)    \* id must stay unique
                  ELSE StoreResult(
                         [table |-> (db.table \ {old}) \cup
                                       {[old EXCEPT !.id = ParseInt(new_value)]},
                          seq |-> Max(db.seq, ParseInt(new_value))],
                         TRUE, FALSE)
             ELSE StoreResult(
                    [db EXCEPT !.table = (@ \ {old}) \cup
                        {[old EXCEPT ![column] = new_value]}],
                    TRUE, FALSE)

(***************************************************************************)
(* main.py: the request router.  A handler maps the store and the          *)
(* request's parameters to the store afterwards, the response and the      *)
(* store operations it invoked.                                            *)
(***************************************************************************)
Reply(db, status, body, called) ==
    [db |-> db, status |-> status, body |-> body, calls |-> called]

HTTPException(db, status_code, detail, called) ==
    Reply(db, status_code, [detail |-> detail], called)

\* an exception no handler catches: the framework answers 500
ServerError(db, called) ==
    Reply(db, 500, [detail |-> "Internal Server Error"], called)

startup_event(db) == database_create_table(db)

\* read_employees with the two arguments of get_employees exchanged
read_employees_Swapped(db, skip, limit) ==
    LET r == database_get_employees(db, limit, skip)
    IN  Reply(r.db, 200, [i \in 1 .. Len(r.result) |-> Employee(r.result[i])],
              <<"get_employees">>)

read_employees(db, skip, limit) ==
    LET r == database_get_employees(db, skip, limit)
    IN  Reply(r.db, 200, [i \in 1 .. Len(r.result) |-> Employee(r.result[i])],
              <<"get_employees">>)

read_employee(db, employee_id) ==
    LET r == database_get_employee(db, employee_id)
    IN  IF r.result = None
        THEN HTTPException(r.db, 404, "Employee not found", <<"get_employee">>)
        ELSE Reply(r.db, 200, Employee(r.result), <<"get_employee">>)

\* create_employee returning the request body instead of the stored record
create_employee_EchoPayload(db, employee) ==
    LET r == database_insert_employee(db, employee)
    IN  Reply(r.db, 200,
              [id |-> IF "id" \in DOMAIN employee THEN employee.id ELSE 0,
               name |-> employee.name, department |-> employee.department],
              <<"insert_employee">>)

\* create_employee moving the new row to the client-supplied id when it is free
create_employee_KeepClientId(db, employee) ==
    LET r == database_insert_employee(db, employee)
        wanted == IF "id" \in DOMAIN employee THEN employee.id
                  ELSE r.result.id
        u == database_update_employee(r.db, r.result.id, "id", ToString(wanted))
    IN  IF u.result
        THEN Reply(u.db, 200, Employee([r.result EXCEPT !.id = wanted]),
                   <<"insert_employee", "update_employee">>)
        ELSE Reply(r.db, 200, Employee(r.result), <<"insert_employee">>)

\* create_employee replacing the row that already has the client-supplied id
create_employee_Upsert(db, employee) ==
    LET d == IF "id" \in DOMAIN employee
             THEN database_delete_employee(db, employee.id).db ELSE db
        r == database_insert_employee(d, employee)
    IN  Reply(r.db, 200, Employee(r.result), <<"insert_employee">>)

create_employee(db, employee) ==
    LET r == database_insert_employee(db, employee)
    IN  Reply(r.db, 200, Employee(r.result), <<"insert_employee">>)

\* delete_employee with the test of the store's answer inverted
delete_employee_Inverted(db, employee_id) ==
    LET r == database_delete_employee(db, employee_id)
    IN  IF r.result
        THEN HTTPException(r.db, 404, "Employee not found", <<"delete_employee">>)
        ELSE Reply(r.db, 200, [message |-> "Employee deleted"],
                   <<"delete_employee">>)

delete_employee(db, employee_id) ==
    LET r == database_delete_employee(db, employee_id)
    IN  IF ~r.result
        THEN HTTPException(r.db, 404, "Employee not found", <<"delete_employee">>)
        ELSE Reply(r.db, 200, [message |-> "Employee deleted"],
                   <<"delete_employee">>)

\* update_employee always naming the column name
update_employee_NameOnly(db, employee_id, column, new_value) ==
    LET r == database_update_employee(db, employee_id, "name", new_value)
    IN  IF r.fault
        THEN ServerError(r.db, <<"update_employee">>)
        ELSE IF ~r.result
        THEN HTTPException(r.db, 404, "Employee not found", <<"update_employee">>)
        ELSE Reply(r.db, 200, [message |-> "Employee updated"],
                   <<"update_employee">>)

\* update_employee creating the row it did not find before answering 404
update_employee_InsertMissing(db, employee_id, column, new_value) ==
    LET r == database_update_employee(db, employee_id, column, new_value)
    IN  IF r.fault
        THEN ServerError(r.db, <<"update_employee">>)
        ELSE IF ~r.result
        THEN HTTPException(
                 database_insert_employee(
                     r.db, [name |-> new_value, department |-> new_value]).db,
                 404, "Employee not found",
                 <<"update_employee", "insert_employee">>)
        ELSE Reply(r.db, 200, [message |-> "Employee updated"],
                   <<"update_employee">>)

update_employee(db, employee_id, column, new_value) ==
    LET r == database_update_employee(db, employee_id, column, new_value)
    IN  IF r.fault
        THEN ServerError(r.db, <<"update_employee">>)
        ELSE IF ~r.result
        THEN HTTPException(r.db, 404, "Employee not found", <<"update_employee">>)
        ELSE Reply(r.db, 200, [message |-> "Employee updated"],
                   <<"update_employee">>)

(***************************************************************************)
(* The service handling one request at a time.                             *)
(***************************************************************************)
Store == [table |-> table, seq |-> seq]

Query(q, key, default) == IF key \in DOMAIN q THEN q[key] ELSE default

Handled(req, out) ==
    /\ table' = out.db.table
    /\ seq' = out.db.seq
    /\ request' = req
    /\ response' = [status |-> out.status, body |-> out.body]
    /\ calls' = out.calls
    /\ returned' = IF req.op = "create" /\ out.status = 200
                   THEN out.body.id ELSE returned
    /\ deleted' = IF req.op = "delete" /\ out.status = 200
                  THEN deleted \cup {req.id} ELSE deleted
    /\ UNCHANGED inflight

Init ==
    /\ table = {}
    /\ seq = 0
    /\ request = [op |-> "startup"]
    /\ response = [status |-> 0, body |-> None]
    /\ calls = <<"create_table">>
    /\ returned = 0
    /\ deleted = {}
    /\ inflight = <<>>

Startup ==
    /\ table' = startup_event(Store).table
    /\ seq' = startup_event(Store).seq
    /\ request' = [op |-> "startup"]
    /\ response' = [status |-> 0, body |-> None]
    /\ calls' = <<"create_table">>
    /\ UNCHANGED <<returned, deleted, inflight>>

List ==
    \E q \in Queries :
        LET skip  == Query(q, "skip", DefaultSkip)
            limit == Query(q, "limit", DefaultLimit)
        IN  Handled([op |-> "list", skip |-> skip, limit |-> limit],
                    read_employees(Store, skip, limit))

Get ==
    \E id \in RequestIds :
        Handled([op |-> "get", id |-> id], read_employee(Store, id))

Create ==
    \E e \in Payloads :
        /\ seq < MaxId
        /\ Handled([op |-> "create", employee |-> e], create_employee(Store, e))

Delete ==
    \E id \in RequestIds :
        Handled([op |-> "delete", id |-> id], delete_employee(Store, id))

Update ==
    \E id \in RequestIds, column \in RequestColumns, v \in NewValues :
        Handled([op |-> "update", id |-> id, column |-> column, new_value |-> v],
                update_employee(Store, id, column, v))

Next == Startup \/ List \/ Get \/ Create \/ Delete \/ Update

Spec == Init /\ [][Next]_vars

(***************************************************************************)
(* Properties of the service.                                              *)
(***************************************************************************)
StoreAfter == [table |-> table', seq |-> seq']

DocumentedColumns == {"name", "department"}

NotFound == [status |-> 404, body |-> [detail |-> "Employee not found"]]

Answer(out) == [status |-> out.status, body |-> out.body]

\* C1: get-one, delete and update of a documented column are answered 404
\* "Employee not found" exactly when no row has the id at the time of the
\* request, and otherwise 200 with the employee, "Employee deleted" or
\* "Employee updated"; they produce no other response.
C1_NotFoundExactlyWhenAbsent ==
    [][(/\ request'.op \in {"get", "delete", "update"}
        /\ request'.op = "update" => request'.column \in DocumentedColumns)
       => IF request'.id \in Ids(table)
          THEN /\ response'.status = 200
               /\ request'.op = "get" =>
                    response'.body = Employee(Row(table, request'.id))
               /\ request'.op = "delete" =>
                    response'.body = [message |-> "Employee deleted"]
               /\ request'.op = "update" =>
                    response'.body = [message |-> "Employee updated"]
          ELSE response' = NotFound]_vars

C1_Witness ==
    /\ request.op = "update"
    /\ request.column = "department"
    /\ response = NotFound
    /\ table # {}

\* C2: the record a create returns carries the payload's name and department,
\* and a get-one of the returned id, right after, returns the same record in
\* id, name and department.
C2_InsertRoundTrip ==
    request.op = "create" =>
        /\ response.status = 200
        /\ response.body.name = request.employee.name
        /\ response.body.department = request.employee.department
        /\ Answer(read_employee(Store, response.body.id))
              = [status |-> 200, body |-> response.body]

C2_Witness ==
    /\ request.op = "create"
    /\ "id" \in DOMAIN request.employee
    /\ request.employee.id # response.body.id
    /\ Cardinality(table) > 1

\* C4: after an update of name (of department) of an existing row, get-one of
\* that id returns the new value in that column and the other column and the
\* id as they were before the update.
C4_UpdateSetsOneColumn ==
    [][(/\ request'.op = "update"
        /\ request'.column \in DocumentedColumns
        /\ request'.id \in Ids(table))
       => LET old   == Row(table, request'.id)
              got   == read_employee(StoreAfter, request'.id)
              other == CHOOSE c \in DocumentedColumns : c # request'.column
          IN  /\ got.status = 200
              /\ got.body[request'.column] = request'.new_value
              /\ got.body[other] = old[other]
              /\ got.body.id = old.id]_vars

C4_Witness ==
    /\ request.op = "update"
    /\ request.column = "name"
    /\ response.status = 200
    /\ Row(table, request.id).name = request.new_value
    /\ Row(table, request.id).department # request.new_value

\* C3: delete of an id followed by get-one of that id yields 404, whether or
\* not a row had the id; and an id whose row a delete removed stays not found
\* after any later insert, update and delete requests.
C3_DeletedStaysNotFound ==
    /\ request.op = "delete" =>
          Answer(read_employee(Store, request.id)) = NotFound
    /\ \A id \in deleted : Answer(read_employee(Store, id)) = NotFound

\* the part of C3 about the get-one that follows the delete at once
C3_DeleteThenGet ==
    request.op = "delete" => Answer(read_employee(Store, request.id)) = NotFound

\* C5: no two rows have the same id; every id a create returns is strictly
\* greater than the id the create before it returned, hence than every id a
\* create returned earlier, so none is returned twice; and it is the id of no
\* row present and of no row deleted.
C5_IdsUniqueAndIncreasing ==
    /\ [](Cardinality(Ids(table)) = Cardinality(table))
    /\ [][(request'.op = "create" /\ response'.status = 200)
          => /\ response'.body.id > returned
             /\ response'.body.id \notin Ids(table)
             /\ response'.body.id \notin deleted]_vars

\* a create after the row with the highest id was deleted
C5_Witness ==
    /\ request.op = "create"
    /\ deleted # {}
    /\ MaxOf(Ids(table) \ {response.body.id}) < MaxOf(deleted)
    /\ MaxOf(deleted) < response.body.id

\* C6: an update request whose column is neither name nor department never
\* reaches the store as an update and changes no row.
C6_OnlyDocumentedColumns ==
    [][(request'.op = "update" /\ request'.column \notin DocumentedColumns)
       => /\ \A i \in DOMAIN calls' : calls'[i] # "update_employee"
          /\ table' = table]_vars

\* C7: a list request with skip >= 0 and limit N > 0 is answered 200 with at
\* most N records, ascending by id: the rows at positions skip+1 .. skip+N of
\* the table ordered by id (none when there are none there); and a list of the
\* same table with the same N at a skip at least N away shares no record.
Rank(t, row) == Cardinality({q \in t : q.id <= row.id})

C7_Pagination ==
    request.op = "list" =>
        LET page == response.body
            n    == Len(page)
            skip == request.skip
            N    == request.limit
        IN  /\ response.status = 200
            /\ n <= N
            /\ n = Cardinality({r \in table : Rank(table, r) \in (skip + 1) .. (skip + N)})
            /\ \A k \in 1 .. n : page[k] \in table /\ Rank(table, page[k]) = skip + k
            /\ \A k \in 1 .. (n - 1) : page[k].id < page[k + 1].id
            /\ \A other \in 0 .. (MaxSkip + MaxLimit + MaxId) :
                  (other >= skip + N \/ skip >= other + N) =>
                      LET far == read_employees(Store, other, N).body
                      IN  \A j \in 1 .. Len(far), k \in 1 .. n : far[j] # page[k]

C7_Witness ==
    /\ request.op = "list"
    /\ request.skip = 1
    /\ request.limit = 1
    /\ Len(response.body) = 1
    /\ Cardinality(table) = MaxId

\* C8: a create succeeds whatever id the payload carries, adds exactly one row,
\* with the id and content it would have had without a client-supplied id, and
\* leaves every existing row as it was.
WithoutId(employee) ==
    [name |-> employee.name, department |-> employee.department]

C8_CreateIgnoresClientId ==
    [][request'.op = "create"
       => /\ response'.status = 200
          /\ table \subseteq table'
          /\ Cardinality(table' \ table) = 1
          /\ response'.body \in table' \ table
          /\ response'.body.id \notin Ids(table)
          /\ LET plain == create_employee(Store, WithoutId(request'.employee))
             IN  /\ table' = plain.db.table
                 /\ response'.body = plain.body]_vars

\* a create whose payload carries the id of an existing row
C8_Witness ==
    /\ request.op = "create"
    /\ "id" \in DOMAIN request.employee
    /\ request.employee.id \in Ids(table)
    /\ request.employee.id # response.body.id

\* C10: every request changes at most one row: list and get-one none; create
\* adds one row and changes no other; delete removes only the row with the
\* id; update changes only the row with the id; a delete or update answered
\* 404 leaves the table as it was.
Others(t, id) == {r \in t : r.id # id}

C10_AtMostOneRow ==
    [][/\ Cardinality(table \ table') <= 1
       /\ Cardinality(table' \ table) <= 1
       /\ request'.op \in {"list", "get", "startup"} => table' = table
       /\ request'.op = "create" =>
             table \subseteq table' /\ Cardinality(table') = Cardinality(table) + 1
       /\ request'.op = "delete" => table' = Others(table, request'.id)
       /\ request'.op = "update" =>
             /\ Others(table, request'.id) \subseteq table'
             /\ Cardinality(table') = Cardinality(table)
       /\ (request'.op \in {"delete", "update"} /\ response'.status = 404) =>
             table' = table]_vars

C10_Witness ==
    /\ request.op = "update"
    /\ response.status = 200
    /\ Cardinality(table) > 1
    /\ \E r \in table : r.id = request.id /\ r.name # r.department

(***************************************************************************)
(* Two update requests handled concurrently.  A handler calls the store    *)
(* (one statement, which the store runs alone) and then answers; the       *)
(* calls of the two handlers happen in either order.                       *)
(***************************************************************************)
Handlers == 1 .. 2

\* the store after three creates and the delete of the second row
ConcStore0 ==
    LET e  == [name |-> "Ann", department |-> "2"]
        s1 == create_employee([table |-> {}, seq |-> 0], e).db
        s2 == create_employee(s1, e).db
        s3 == create_employee(s2, e).db
    IN  delete_employee(s3, 2).db

InitConc ==
    /\ table = ConcStore0.table
    /\ seq = ConcStore0.seq
    /\ request = [op |-> "startup"]
    /\ response = [status |-> 0, body |-> None]
    /\ calls = <<>>
    /\ returned = ConcStore0.seq
    /\ deleted = {2}
    /\ inflight \in [Handlers -> [pc : {"received"},
                                  id : Ids(ConcStore0.table),
                                  column : RequestColumns,
                                  new_value : NewValues,
                                  status : {0}]]

ConcStoreCall(h) ==
    /\ inflight[h].pc = "received"
    /\ LET out == update_employee(Store, inflight[h].id, inflight[h].column,
                                  inflight[h].new_value)
       IN  /\ table' = out.db.table
           /\ seq' = out.db.seq
           /\ inflight' = [inflight EXCEPT ![h].pc = "called",
                                           ![h].status = out.status]
    /\ UNCHANGED <<request, response, calls, returned, deleted>>

ConcAnswer(h) ==
    /\ inflight[h].pc = "called"
    /\ inflight' = [inflight EXCEPT ![h].pc = "answered"]
    /\ UNCHANGED <<table, seq, request, response, calls, returned, deleted>>

NextConc == \E h \in Handlers : ConcStoreCall(h) \/ ConcAnswer(h)

SpecConc == InitConc /\ [][NextConc]_vars

\* the outcome C9 describes for two answered updates a and b of the row id
SerialOutcome(a, b, id) ==
    /\ a.status = 200
    /\ b.status = 200
    /\ Others(table, id) = Others(ConcStore0.table, id)
    /\ Cardinality({r \in table : r.id = id}) = 1
    /\ LET row == Row(table, id)
       IN  IF a.column = b.column
           THEN ColumnText(row, a.column) \in {a.new_value, b.new_value}
           ELSE /\ ColumnText(row, a.column) = a.new_value
                /\ ColumnText(row, b.column) = b.new_value

\* C9: two concurrent update requests on the same existing row are both
\* answered 200 and leave the row as the two updates in some serial order
\* leave it: the same column holds one of the two written values, different
\* columns hold both; the row is neither lost nor duplicated and keeps its id.
C9_ConcurrentUpdates ==
    (/\ \A h \in Handlers : inflight[h].pc = "answered"
     /\ inflight[1].id = inflight[2].id)
    => SerialOutcome(inflight[1], inflight[2], inflight[1].id)

\* the same for update requests that name the documented columns only
C9_DocumentedColumnsOnly ==
    (/\ \A h \in Handlers : /\ inflight[h].pc = "answered"
                            /\ inflight[h].column \in DocumentedColumns
     /\ inflight[1].id = inflight[2].id)
    => SerialOutcome(inflight[1], inflight[2], inflight[1].id)

====
